---- MODULE Spec2Model ----
(***************************************************************************)
(* The Graph Data Service of the social network: class Database of app.py  *)
(* over a Neo4j graph store.  Each method runs one Cypher statement in an  *)
(* auto-commit transaction, so each method is one atomic step of the store.*)
(***************************************************************************)
EXTENDS Integers, Sequences, FiniteSets, Bags, TLC

\* Bounds on the User nodes and the Post nodes the store holds.
MaxUsers == 2
MaxPosts == 2
\* Bound on the readings of the store's clock, datetime().
MaxClock == 1

\* (username, name) pairs passed to create_user: sample users of app.py.
UserInputs == { <<"alice", "Alice Smith">>, <<"bob", "Bob Johnson">> }

\* Post contents passed to create_post.
Contents == {"first", "second"}

VARIABLES
    graph,   \* the Neo4j store behind Database.driver
    clock,   \* the latest reading of the store's clock, datetime()
    last,    \* the caller's call of a Database method that has not returned yet:
             \* op, args, ret and the store as the call found it (pre); Idle between calls
    calls,   \* the request each server thread is handling: idle, called with
             \* op and args, or done with its ret
    issued   \* the element ids create_user and create_post have returned so far

vars == <<graph, clock, last, calls, issued>>

----------------------------------------------------------------------------
\* What a Python call yields: a value, None, or a raised exception.

None == [kind |-> "none"]

Value(v) == [kind |-> "value", value |-> v]

Raise(e) == [kind |-> "raise", exc |-> e]

Outcome(g, r) == [g |-> g, ret |-> r]

----------------------------------------------------------------------------
\* The store.

EmptyStore ==
    [ users       |-> {},        \* (:User) nodes: [id, username, name]
      posts       |-> {},        \* (:Post) nodes: [id, content, timestamp]
      posted      |-> {},        \* [:POSTED] edges: <<user id, post id>>
      follows     |-> EmptyBag,  \* [:FOLLOWS] edges: a bag of <<follower id, followee id>>
      nextId      |-> 0,         \* the next element id the store hands out
      constraints |-> {} ]       \* uniqueness constraints: [name, property]

UserIds(g) == { u.id : u \in g.users }

PostIds(g) == { p.id : p \in g.posts }

\* MATCH (u:User) WHERE elementId(u) = $user_id
MatchUser(g, user_id) == { u \in g.users : u.id = user_id }

\* Is a uniqueness constraint on (:User).property in force?
IsUnique(g, property) == \E c \in g.constraints : c.property = property

\* CREATE CONSTRAINT unique_user_id IF NOT EXISTS FOR (u:User) REQUIRE u.id IS UNIQUE:
\* the constraint as neo4j_db.py declares it, which leaves usernames free.
init_db_on_id(g) ==
    IF \E c \in g.constraints : c.name = "unique_user_id" \/ c.property = "id"
    THEN g
    ELSE [g EXCEPT !.constraints = @ \cup {[name |-> "unique_user_id", property |-> "id"]}]

\* Database._init_db: CREATE CONSTRAINT unique_user_id IF NOT EXISTS
\* FOR (u:User) REQUIRE u.username IS UNIQUE.  A constraint of that name or on
\* that property makes it a no-op.
init_db(g) ==
    IF \E c \in g.constraints : c.name = "unique_user_id" \/ c.property = "username"
    THEN g
    ELSE [g EXCEPT !.constraints = @ \cup {[name |-> "unique_user_id", property |-> "username"]}]

----------------------------------------------------------------------------
\* User operations.  Every method maps the store and its arguments to the set
\* of outcomes [g, ret] the statement can have.

\* create_user with its two parameters bound the wrong way round.
create_user_swapped(g, username, name) ==
    IF IsUnique(g, "username") /\ \E u \in g.users : u.username = name
    THEN { Outcome(g, Raise("ConstraintError")) }
    ELSE { Outcome([g EXCEPT !.users = @ \cup {[id |-> g.nextId, username |-> name, name |-> username]},
                             !.nextId = @ + 1],
                   Value(g.nextId)) }

\* Database.create_user
create_user(g, username, name) ==
    IF IsUnique(g, "username") /\ \E u \in g.users : u.username = username
    THEN { Outcome(g, Raise("ConstraintError")) }
    ELSE { Outcome([g EXCEPT !.users = @ \cup {[id |-> g.nextId, username |-> username, name |-> name]},
                             !.nextId = @ + 1],
                   Value(g.nextId)) }

\* Database.get_user
get_user(g, user_id) ==
    IF MatchUser(g, user_id) = {}
    THEN { Outcome(g, None) }
    ELSE { Outcome(g, Value(u)) : u \in MatchUser(g, user_id) }

\* Database.get_all_users: one row per User node, in no stated order.
get_all_users(g) == { Outcome(g, Value(SetToBag(g.users))) }

----------------------------------------------------------------------------
\* Post operations.

\* A result row of the post queries: the post with its author denormalized.
PostRow(u, p) ==
    [id |-> p.id, content |-> p.content, timestamp |-> p.timestamp,
     username |-> u.username, name |-> u.name]

\* ORDER BY p.timestamp ASC: the wrong direction.
OrderByTimestampAsc(rows) ==
    LET S == BagToSet(rows)
        n == BagCardinality(rows)
    IN  { s \in [1..n -> S] :
            /\ \A r \in S : Cardinality({ i \in 1..n : s[i] = r }) = CopiesIn(r, rows)
            /\ \A i \in 1..(n - 1) : s[i].timestamp <= s[i + 1].timestamp }

\* ORDER BY p.timestamp DESC over a bag of rows: every arrangement of the rows
\* in which no row precedes one with a later timestamp.  Cypher leaves the
\* order of rows with equal keys open.
OrderByTimestampDesc(rows) ==
    LET S == BagToSet(rows)
        n == BagCardinality(rows)
    IN  { s \in [1..n -> S] :
            /\ \A r \in S : Cardinality({ i \in 1..n : s[i] = r }) = CopiesIn(r, rows)
            /\ \A i \in 1..(n - 1) : s[i].timestamp >= s[i + 1].timestamp }

\* create_post without its second CREATE: the post gets no POSTED edge.
create_post_no_edge(g, now, user_id, content) ==
    IF MatchUser(g, user_id) = {}
    THEN { Outcome(g, Raise("TypeError")) }
    ELSE { Outcome([g EXCEPT !.posts = @ \cup {[id |-> g.nextId, content |-> content, timestamp |-> now]},
                             !.nextId = @ + 1],
                   Value(g.nextId)) }

\* Database.create_post.  With no matching User the statement yields no row,
\* result.single() is None and subscripting it raises TypeError.
create_post(g, now, user_id, content) ==
    IF MatchUser(g, user_id) = {}
    THEN { Outcome(g, Raise("TypeError")) }
    ELSE { Outcome([g EXCEPT !.posts = @ \cup {[id |-> g.nextId, content |-> content, timestamp |-> now]},
                             !.posted = @ \cup {<<user_id, g.nextId>>},
                             !.nextId = @ + 1],
                   Value(g.nextId)) }

\* The rows of MATCH (u:User)-[:POSTED]->(p:Post) WHERE elementId(u) = $user_id
PostsByUserRows(g, user_id) ==
    SetToBag({ PostRow(u, p) : <<u, p>> \in
                 { x \in MatchUser(g, user_id) \X g.posts : <<x[1].id, x[2].id>> \in g.posted } })

\* get_posts_by_user that looks the user up first and fails when there is none.
get_posts_by_user_strict(g, user_id) ==
    IF MatchUser(g, user_id) = {}
    THEN { Outcome(g, Raise("NotFound")) }
    ELSE { Outcome(g, Value(s)) : s \in OrderByTimestampDesc(PostsByUserRows(g, user_id)) }

\* Database.get_posts_by_user
get_posts_by_user(g, user_id) ==
    { Outcome(g, Value(s)) : s \in OrderByTimestampDesc(PostsByUserRows(g, user_id)) }

\* The bag of rows one per (FOLLOWS edge, POSTED edge) path in the set of
\* (followee, post) pairs.
RECURSIVE PathRows(_, _, _)
PathRows(g, user_id, paths) ==
    IF paths = {} THEN EmptyBag
    ELSE LET x == CHOOSE y \in paths : TRUE
             r == PostRow(x[1], x[2])
             c == CopiesIn(<<user_id, x[1].id>>, g.follows)
         IN  [rr \in {r} |-> c] (+) PathRows(g, user_id, paths \ {x})

\* The feed pattern with its FOLLOWS edge reversed: the posts of the followers.
FeedRowsOfFollowers(g, user_id) ==
    IF MatchUser(g, user_id) = {} THEN EmptyBag
    ELSE SetToBag({ PostRow(x[1], x[2]) : x \in
                      { y \in g.users \X g.posts :
                          /\ BagIn(<<y[1].id, user_id>>, g.follows)
                          /\ <<y[1].id, y[2].id>> \in g.posted } })

\* The rows of MATCH (me:User)-[:FOLLOWS]->(u:User) WHERE elementId(me) = $user_id
\* WITH u MATCH (u)-[:POSTED]->(p:Post)
FeedRows(g, user_id) ==
    IF MatchUser(g, user_id) = {} THEN EmptyBag
    ELSE PathRows(g, user_id,
                  { x \in g.users \X g.posts :
                      /\ BagIn(<<user_id, x[1].id>>, g.follows)
                      /\ <<x[1].id, x[2].id>> \in g.posted })

\* Database.get_feed
get_feed(g, user_id) ==
    { Outcome(g, Value(s)) : s \in OrderByTimestampDesc(FeedRows(g, user_id)) }

----------------------------------------------------------------------------
\* Follow operations.

\* follow_user with CREATE in place of MERGE: every call adds an edge.
follow_user_create(g, follower_id, followee_id) ==
    IF MatchUser(g, follower_id) = {} \/ MatchUser(g, followee_id) = {}
    THEN { Outcome(g, Value(FALSE)) }
    ELSE { Outcome([g EXCEPT !.follows = @ (+) SetToBag({<<follower_id, followee_id>>})],
                   Value(TRUE)) }

\* follow_user that returns True once its statement has run, whether or not
\* the statement yielded a row.
follow_user_unchecked(g, follower_id, followee_id) ==
    IF MatchUser(g, follower_id) = {} \/ MatchUser(g, followee_id) = {}
    THEN { Outcome(g, Value(TRUE)) }
    ELSE IF BagIn(<<follower_id, followee_id>>, g.follows)
         THEN { Outcome(g, Value(TRUE)) }
         ELSE { Outcome([g EXCEPT !.follows = @ (+) SetToBag({<<follower_id, followee_id>>})],
                        Value(TRUE)) }

\* follow_user whose WHERE also asks that the two users differ: a user cannot
\* follow themselves.
follow_user_no_self(g, follower_id, followee_id) ==
    IF MatchUser(g, follower_id) = {} \/ MatchUser(g, followee_id) = {} \/ follower_id = followee_id
    THEN { Outcome(g, Value(FALSE)) }
    ELSE IF BagIn(<<follower_id, followee_id>>, g.follows)
         THEN { Outcome(g, Value(TRUE)) }
         ELSE { Outcome([g EXCEPT !.follows = @ (+) SetToBag({<<follower_id, followee_id>>})],
                        Value(TRUE)) }

\* Database.follow_user.  MERGE creates the edge only when the pair has none;
\* with an endpoint missing there is no row and the method returns False.
follow_user(g, follower_id, followee_id) ==
    IF MatchUser(g, follower_id) = {} \/ MatchUser(g, followee_id) = {}
    THEN { Outcome(g, Value(FALSE)) }
    ELSE IF BagIn(<<follower_id, followee_id>>, g.follows)
         THEN { Outcome(g, Value(TRUE)) }
         ELSE { Outcome([g EXCEPT !.follows = @ (+) SetToBag({<<follower_id, followee_id>>})],
                        Value(TRUE)) }

\* Database.get_followers: one row per FOLLOWS edge into the user.
get_followers(g, user_id) ==
    { Outcome(g, Value([ f \in { u \in g.users : BagIn(<<u.id, user_id>>, g.follows) }
                           |-> CopiesIn(<<f.id, user_id>>, g.follows) ])) }

\* Database.get_following: one row per FOLLOWS edge out of the user.
get_following(g, user_id) ==
    { Outcome(g, Value([ f \in { u \in g.users : BagIn(<<user_id, u.id>>, g.follows) }
                           |-> CopiesIn(<<user_id, f.id>>, g.follows) ])) }

\* unfollow_user whose WHERE names the follower alone: every FOLLOWS edge out of
\* the follower is deleted.
unfollow_user_any(g, follower_id, followee_id) ==
    LET gone    == { e \in BagToSet(g.follows) : e[1] = follower_id }
        deleted == BagCardinality([ e \in gone |-> g.follows[e] ])
    IN  { Outcome([g EXCEPT !.follows = [ e \in BagToSet(g.follows) \ gone |-> g.follows[e] ]],
                  Value(deleted > 0)) }

\* unfollow_user with the pattern's direction reversed: the edge from the
\* followee to the follower is deleted.
unfollow_user_reversed(g, follower_id, followee_id) ==
    LET deleted == CopiesIn(<<followee_id, follower_id>>, g.follows)
    IN  { Outcome([g EXCEPT !.follows = [ e \in BagToSet(g.follows) \ {<<followee_id, follower_id>>}
                                            |-> g.follows[e] ]],
                  Value(deleted > 0)) }

\* unfollow_user whose pattern has no direction, -[r:FOLLOWS]-: the edges
\* between the two users are deleted both ways.
unfollow_user_undirected(g, follower_id, followee_id) ==
    LET gone    == {<<follower_id, followee_id>>, <<followee_id, follower_id>>} \cap BagToSet(g.follows)
        deleted == BagCardinality([ e \in gone |-> g.follows[e] ])
    IN  { Outcome([g EXCEPT !.follows = [ e \in BagToSet(g.follows) \ gone |-> g.follows[e] ]],
                  Value(deleted > 0)) }

\* The FOLLOWS edges left when those from follower_id to followee_id are deleted.
DeleteFollows(g, follower_id, followee_id) ==
    [ e \in BagToSet(g.follows) \ {<<follower_id, followee_id>>} |-> g.follows[e] ]

\* Database.unfollow_user: DELETE r RETURN count(r); the aggregate yields one
\* row even when nothing matched.
unfollow_user(g, follower_id, followee_id) ==
    LET deleted == CopiesIn(<<follower_id, followee_id>>, g.follows)
    IN  { Outcome([g EXCEPT !.follows = DeleteFollows(g, follower_id, followee_id)],
                  Value(deleted > 0)) }

\* A store call that fails: the driver raises before the statement commits, or
\* after it has committed and while its result is fetched.  The stores a
\* failing statement with the outcomes os can leave, from store g.
LeftByFailure(g, os) == {g} \cup { o.g : o \in os }

\* Database.follow_user against a store that is reachable (up) or whose call
\* fails: except Exception turns every failure into the return value False.
follow_user_store(up, g, follower_id, followee_id) ==
    IF up
    THEN follow_user(g, follower_id, followee_id)
    ELSE { Outcome(h, Value(FALSE)) :
             h \in LeftByFailure(g, follow_user(g, follower_id, followee_id)) }

\* Database.unfollow_user has no try: the driver's exception reaches the caller.
unfollow_user_store(up, g, follower_id, followee_id) ==
    IF up
    THEN unfollow_user(g, follower_id, followee_id)
    ELSE { Outcome(h, Raise("ServiceUnavailable")) :
             h \in LeftByFailure(g, unfollow_user(g, follower_id, followee_id)) }

----------------------------------------------------------------------------
\* Migration.

\* Migrator.cleanup_neo4j: DROP CONSTRAINT unique_username IF EXISTS, then
\* MATCH (n) DETACH DELETE n.  An element id names a record of the store, and
\* the store is free to give the record of a deleted node to a later one: the
\* ids it hands out next start anywhere from the first to the next unused one.
cleanup_neo4j(g) ==
    { Outcome([g EXCEPT !.users = {}, !.posts = {}, !.posted = {},
                        !.follows = EmptyBag,
                        !.constraints = { c \in @ : c.name # "unique_username" },
                        !.nextId = n],
              None) : n \in 0..g.nextId }

----------------------------------------------------------------------------
\* Startup.

\* The users the module creates when it is loaded on a store without users.
SampleUsers ==
    << <<"alice", "Alice Smith">>, <<"bob", "Bob Johnson">>, <<"charlie", "Charlie Brown">> >>

\* Do the User nodes of store g stand in the way of a uniqueness constraint on
\* the property?  Only username can: no User node carries a property id, its
\* element id is not one.
Violates(g, property) ==
    /\ property = "username"
    /\ \E u, v \in g.users : u # v /\ u.username = v.username

\* CREATE CONSTRAINT name IF NOT EXISTS FOR (u:User) REQUIRE u.property IS UNIQUE:
\* a no-op when a constraint of that name or on that property exists, a failure
\* when the Users there are do not satisfy it.
create_constraint(g, name, property) ==
    IF \E c \in g.constraints : c.name = name \/ c.property = property
    THEN { Outcome(g, None) }
    ELSE IF Violates(g, property)
         THEN { Outcome(g, Raise("ConstraintCreationFailed")) }
         ELSE { Outcome([g EXCEPT !.constraints = @ \cup {[name |-> name, property |-> property]}],
                        None) }

\* Database._init_db as a call: the statement of init_db, which fails when it
\* has a constraint to create and the Users there are do not satisfy it.
run_init_db(g) ==
    IF init_db(g) # g /\ Violates(g, "username")
    THEN { Outcome(g, Raise("ConstraintCreationFailed")) }
    ELSE { Outcome(init_db(g), None) }

\* Neo4jDatabase._init_db: unique_user_id on u.id, then unique_username on
\* u.username.
neo4j_init_db(g) ==
    UNION { IF o.ret.kind = "raise" THEN {o}
            ELSE create_constraint(o.g, "unique_username", "username") :
            o \in create_constraint(g, "unique_user_id", "id") }

\* db.create_user for SampleUsers[i] and those after it, one call after the
\* other; a call that raises ends the module's loading.
RECURSIVE create_sample_users(_, _)
create_sample_users(g, i) ==
    IF i > Len(SampleUsers)
    THEN { Outcome(g, None) }
    ELSE UNION { IF o.ret.kind = "raise" THEN {o} ELSE create_sample_users(o.g, i + 1) :
                 o \in create_user(g, SampleUsers[i][1], SampleUsers[i][2]) }

\* The module's loading without the test of get_all_users: the sample users
\* are created every time.
startup_unguarded(g) ==
    UNION { IF i.ret.kind = "raise" THEN {i} ELSE create_sample_users(i.g, 1) :
            i \in run_init_db(g) }

\* Loading app.py: db = Database(), which runs _init_db, and then the sample
\* data initialization, which creates the sample users if get_all_users
\* returns no user.
startup(g) ==
    UNION { IF i.ret.kind = "raise" THEN {i}
            ELSE UNION { IF BagToSet(r.ret.value) = {}
                         THEN create_sample_users(r.g, 1)
                         ELSE { Outcome(r.g, None) } :
                         r \in get_all_users(i.g) } :
            i \in run_init_db(g) }

----------------------------------------------------------------------------
\* The calls.

\* Element ids a caller may pass: those of the Users and one no node has.
ArgIds == UserIds(graph) \cup {graph.nextId}

\* No call is under way.
Idle == [op |-> "idle"]

\* The element id a call hands to its caller: what create_user and create_post
\* return when they do not raise.
Issued(op, ret) ==
    IF op \in {"create_user", "create_post"} /\ ret.kind = "value" THEN {ret.value} ELSE {}

\* The caller runs one method: its statement takes the store from graph to o.g
\* in one transaction and the method yields o.ret.
Call(op, args, o) ==
    /\ Cardinality(o.g.users) <= MaxUsers
    /\ Cardinality(o.g.posts) <= MaxPosts
    /\ graph' = o.g
    /\ last' = [op |-> op, args |-> args, ret |-> o.ret, pre |-> graph]
    /\ issued' = issued \cup Issued(op, o.ret)
    /\ UNCHANGED calls

\* The threads of the Flask server, each handling one request.
Threads == {"t1", "t2", "t3"}

NoCall == [state |-> "idle"]

Init ==
    /\ graph = init_db(EmptyStore)
    /\ clock = 0
    /\ last = Idle
    /\ calls = [t \in Threads |-> NoCall]
    /\ issued = {}

CreateUser ==
    /\ last = Idle
    /\ \E inp \in UserInputs : \E o \in create_user(graph, inp[1], inp[2]) :
            Call("create_user", [username |-> inp[1], name |-> inp[2]], o)
    /\ UNCHANGED clock

GetUser ==
    /\ last = Idle
    /\ \E id \in ArgIds : \E o \in get_user(graph, id) :
            Call("get_user", [user_id |-> id], o)
    /\ UNCHANGED clock

GetAllUsers ==
    /\ last = Idle
    /\ \E o \in get_all_users(graph) : Call("get_all_users", <<>>, o)
    /\ UNCHANGED clock

\* datetime() reads the store's clock, which does not run backwards.
CreatePost ==
    /\ last = Idle
    /\ \E id \in ArgIds, c \in Contents, now \in clock..MaxClock :
         \E o \in create_post(graph, now, id, c) :
            /\ Call("create_post", [user_id |-> id, content |-> c], o)
            /\ clock' = now

GetPostsByUser ==
    /\ last = Idle
    /\ \E id \in ArgIds : \E o \in get_posts_by_user(graph, id) :
            Call("get_posts_by_user", [user_id |-> id], o)
    /\ UNCHANGED clock

GetFeed ==
    /\ last = Idle
    /\ \E id \in ArgIds : \E o \in get_feed(graph, id) :
            Call("get_feed", [user_id |-> id], o)
    /\ UNCHANGED clock

FollowUser ==
    /\ last = Idle
    /\ \E a \in ArgIds, b \in ArgIds : \E o \in follow_user(graph, a, b) :
            Call("follow_user", [follower_id |-> a, followee_id |-> b], o)
    /\ UNCHANGED clock

GetFollowers ==
    /\ last = Idle
    /\ \E id \in ArgIds : \E o \in get_followers(graph, id) :
            Call("get_followers", [user_id |-> id], o)
    /\ UNCHANGED clock

GetFollowing ==
    /\ last = Idle
    /\ \E id \in ArgIds : \E o \in get_following(graph, id) :
            Call("get_following", [user_id |-> id], o)
    /\ UNCHANGED clock

UnfollowUser ==
    /\ last = Idle
    /\ \E a \in ArgIds, b \in ArgIds : \E o \in unfollow_user(graph, a, b) :
            Call("unfollow_user", [follower_id |-> a, followee_id |-> b], o)
    /\ UNCHANGED clock

\* The method returns to its caller.
Return ==
    /\ last # Idle
    /\ last' = Idle
    /\ UNCHANGED <<graph, clock, calls, issued>>

Next ==
    \/ CreateUser \/ GetUser \/ GetAllUsers
    \/ CreatePost \/ GetPostsByUser \/ GetFeed
    \/ FollowUser \/ GetFollowers \/ GetFollowing \/ UnfollowUser
    \/ Return

Spec == Init /\ [][Next]_vars

----------------------------------------------------------------------------
\* Concurrent requests.  The Flask server handles each request on a thread of
\* its own; a request calls one Database method, whose statement the store
\* runs as one transaction.

\* The store g after a statement with the outcomes os.
After(os) == (CHOOSE o \in os : TRUE).g

\* The store once the service has started on an empty store and created
\* alice and bob, and bob has posted.
Seeded ==
    LET g0 == init_db(EmptyStore)
        g1 == After(create_user(g0, "alice", "Alice Smith"))
        g2 == After(create_user(g1, "bob", "Bob Johnson"))
    IN  After(create_post(g2, 0, 1, "first"))

\* The requests the threads handle: registrations of a new and of a taken
\* username, and the follow operations and reads among the seeded users.
Requests ==
    { [op |-> "create_user", args |-> [username |-> inp[1], name |-> inp[2]]] :
        inp \in { <<"charlie", "Charlie Brown">>, <<"alice", "Alice Smith">> } }
    \cup { [op |-> op, args |-> [follower_id |-> a, followee_id |-> b]] :
             op \in {"follow_user", "unfollow_user"}, a \in UserIds(Seeded), b \in UserIds(Seeded) }
    \cup { [op |-> op, args |-> [user_id |-> a]] :
             op \in {"get_following", "get_followers", "get_feed"}, a \in UserIds(Seeded) }

\* The service is up: the store is the seeded one, with or without alice
\* following bob, and no request has arrived.
ConcInit ==
    /\ graph \in { Seeded, After(follow_user(Seeded, 0, 1)) }
    /\ clock = 0
    /\ last = Idle
    /\ calls = [t \in Threads |-> NoCall]
    /\ issued = UserIds(Seeded) \cup PostIds(Seeded)

\* A request arrives at thread t.
Invoke(t) ==
    /\ calls[t].state = "idle"
    /\ \E r \in Requests :
          calls' = [calls EXCEPT ![t] = [state |-> "called", op |-> r.op, args |-> r.args]]
    /\ UNCHANGED <<graph, clock, last, issued>>

Called(t, op) == calls[t].state = "called" /\ calls[t].op = op

\* The statement of thread t's method commits with outcome o.
Run(t, o) ==
    /\ graph' = o.g
    /\ calls' = [calls EXCEPT ![t] = [state |-> "done", op |-> calls[t].op,
                                      args |-> calls[t].args, ret |-> o.ret]]
    /\ issued' = issued \cup Issued(calls[t].op, o.ret)
    /\ UNCHANGED <<clock, last>>

RunCreateUser(t) ==
    /\ Called(t, "create_user")
    /\ \E o \in create_user(graph, calls[t].args.username, calls[t].args.name) : Run(t, o)

RunFollowUser(t) ==
    /\ Called(t, "follow_user")
    /\ \E o \in follow_user(graph, calls[t].args.follower_id, calls[t].args.followee_id) : Run(t, o)

RunUnfollowUser(t) ==
    /\ Called(t, "unfollow_user")
    /\ \E o \in unfollow_user(graph, calls[t].args.follower_id, calls[t].args.followee_id) : Run(t, o)

RunGetFollowing(t) ==
    /\ Called(t, "get_following")
    /\ \E o \in get_following(graph, calls[t].args.user_id) : Run(t, o)

RunGetFollowers(t) ==
    /\ Called(t, "get_followers")
    /\ \E o \in get_followers(graph, calls[t].args.user_id) : Run(t, o)

RunGetFeed(t) ==
    /\ Called(t, "get_feed")
    /\ \E o \in get_feed(graph, calls[t].args.user_id) : Run(t, o)

ConcNext ==
    \E t \in Threads :
        \/ Invoke(t)
        \/ RunCreateUser(t) \/ RunFollowUser(t) \/ RunUnfollowUser(t)
        \/ RunGetFollowing(t) \/ RunGetFollowers(t) \/ RunGetFeed(t)

SpecConc == ConcInit /\ [][ConcNext]_vars

----------------------------------------------------------------------------
\* Calls against a store that may fail.  The service is up on the seeded store
\* and the caller follows and unfollows while the store comes and goes.

CallStore(op, up, args, o) ==
    /\ graph' = o.g
    /\ last' = [op |-> op, args |-> args, ret |-> o.ret, pre |-> graph, up |-> up]
    /\ UNCHANGED <<clock, calls, issued>>

StoreFollowUser ==
    /\ last = Idle
    /\ \E up \in BOOLEAN, a \in ArgIds, b \in ArgIds :
         \E o \in follow_user_store(up, graph, a, b) :
            CallStore("follow_user", up, [follower_id |-> a, followee_id |-> b], o)

StoreUnfollowUser ==
    /\ last = Idle
    /\ \E up \in BOOLEAN, a \in ArgIds, b \in ArgIds :
         \E o \in unfollow_user_store(up, graph, a, b) :
            CallStore("unfollow_user", up, [follower_id |-> a, followee_id |-> b], o)

FaultNext == StoreFollowUser \/ StoreUnfollowUser \/ Return

SpecFault == ConcInit /\ [][FaultNext]_vars

----------------------------------------------------------------------------
\* Calls with any text.  The endpoints pass the request's strings to the
\* Database as they come, the empty string included.

\* (username, name) pairs a request may carry.
AnyUserInputs == UserInputs \cup { <<"", "Nobody">> }

\* Post contents a request may carry.
AnyContents == Contents \cup {""}

CreateUserAny ==
    /\ last = Idle
    /\ \E inp \in AnyUserInputs : \E o \in create_user(graph, inp[1], inp[2]) :
            Call("create_user", [username |-> inp[1], name |-> inp[2]], o)
    /\ UNCHANGED clock

CreatePostAny ==
    /\ last = Idle
    /\ \E id \in ArgIds, c \in AnyContents, now \in clock..MaxClock :
         \E o \in create_post(graph, now, id, c) :
            /\ Call("create_post", [user_id |-> id, content |-> c], o)
            /\ clock' = now

InputNext == CreateUserAny \/ CreatePostAny \/ Return

SpecInput == Init /\ [][InputNext]_vars

----------------------------------------------------------------------------
\* The lifetime of the store: the service creates users and posts, and the
\* migration script empties the store between times.

\* Bound on the element ids in use when the migration script is run.
MaxIds == 3

Cleanup ==
    /\ last = Idle
    /\ graph.nextId <= MaxIds
    /\ \E o \in cleanup_neo4j(graph) : Call("cleanup_neo4j", << >>, o)
    /\ UNCHANGED clock

LifeNext == CreateUser \/ CreatePost \/ Cleanup \/ Return

SpecLife == Init /\ [][LifeNext]_vars

----------------------------------------------------------------------------
\* Startup.  The store is new; app.py is loaded, again and again (the debug
\* server's reloader loads it anew), neo4j_db.py's Neo4jDatabase is
\* constructed on the same store, users are created and the migration script
\* empties the store.

\* A call at startup: no bound applies to the sample users.
CallStart(op, o) ==
    /\ graph' = o.g
    /\ last' = [op |-> op, args |-> << >>, ret |-> o.ret, pre |-> graph]
    /\ issued' = issued \cup (UserIds(o.g) \ UserIds(graph))
    /\ UNCHANGED <<clock, calls>>

\* A store nothing has been run on.
StartInit ==
    /\ graph = EmptyStore
    /\ clock = 0
    /\ last = Idle
    /\ calls = [t \in Threads |-> NoCall]
    /\ issued = {}

Startup ==
    /\ last = Idle
    /\ \E o \in startup(graph) : CallStart("startup", o)

StartNeo4jDatabase ==
    /\ last = Idle
    /\ \E o \in neo4j_init_db(graph) : CallStart("neo4j_init_db", o)

\* create_user on a Database that has been constructed.
CreateUserStarted ==
    /\ graph.constraints # {}
    /\ CreateUser

StartNext == Startup \/ StartNeo4jDatabase \/ CreateUserStarted \/ Cleanup \/ Return

SpecStart == StartInit /\ [][StartNext]_vars

----------------------------------------------------------------------------
\* The /follow route.  Its handler reads get_following and then calls
\* unfollow_user or follow_user: two statements, two transactions, and the
\* statements of other requests may commit between them.

\* any(f['id'] == followee_id for f in following)
is_following(following, followee_id) == \E f \in BagToSet(following) : f.id = followee_id

\* The stores the handler of /follow leaves when no other request runs
\* between its statements.
follow(g, follower_id, followee_id) ==
    UNION { IF is_following(r.ret.value, followee_id)
            THEN { o.g : o \in unfollow_user(r.g, follower_id, followee_id) }
            ELSE { o.g : o \in follow_user(r.g, follower_id, followee_id) } :
            r \in get_following(g, follower_id) }

\* The store the service is up on: alice follows bob, and bob nobody.
ToggleStart == After(follow_user(Seeded, 0, 1))

ToggleInit ==
    /\ graph = ToggleStart
    /\ clock = 0
    /\ last = Idle
    /\ calls = [t \in Threads |-> NoCall]
    /\ issued = UserIds(Seeded) \cup PostIds(Seeded)

\* A POST /follow arrives at thread t with its form fields.
ToggleInvoke(t) ==
    /\ calls[t].state = "idle"
    /\ \E a \in UserIds(ToggleStart), b \in UserIds(ToggleStart) :
          calls' = [calls EXCEPT ![t] = [state |-> "called", op |-> "follow",
                                         args |-> [follower_id |-> a, followee_id |-> b]]]
    /\ UNCHANGED <<graph, clock, last, issued>>

\* following = db.get_following(follower_id), and the membership test on it.
ToggleRead(t) ==
    /\ Called(t, "follow")
    /\ \E o \in get_following(graph, calls[t].args.follower_id) :
          /\ graph' = o.g
          /\ calls' = [calls EXCEPT ![t] =
                          [state |-> "read", op |-> "follow", args |-> calls[t].args,
                           is_following |-> is_following(o.ret.value, calls[t].args.followee_id)]]
    /\ UNCHANGED <<clock, last, issued>>

\* db.unfollow_user or db.follow_user, as the membership test came out.
ToggleWrite(t) ==
    /\ calls[t].state = "read"
    /\ \E o \in (IF calls[t].is_following
                 THEN unfollow_user(graph, calls[t].args.follower_id, calls[t].args.followee_id)
                 ELSE follow_user(graph, calls[t].args.follower_id, calls[t].args.followee_id)) :
          Run(t, o)

ToggleNext == \E t \in Threads : ToggleInvoke(t) \/ ToggleRead(t) \/ ToggleWrite(t)

SpecToggle == ToggleInit /\ [][ToggleNext]_vars

----------------------------------------------------------------------------
\* Properties of the sequential service.

Range(s) == { s[i] : i \in 1..Len(s) }

\* How many rows of a bag of user rows name the user id.
TimesListed(rows, id) ==
    BagCardinality([ r \in { x \in BagToSet(rows) : x.id = id } |-> rows[r] ])

\* What ListFollowing(a) returns in store g.
Following(g, a) == CHOOSE rows \in { o.ret.value : o \in get_following(g, a) } : TRUE

\* C1: no two Users share a username, and a create_user for a username some
\* User already has raises the store's constraint error and leaves the store
\* as it was.
C1_UsernameUniqueness ==
    /\ \A u, v \in graph.users : u.username = v.username => u = v
    /\ (/\ last.op = "create_user"
        /\ \E u \in last.pre.users : u.username = last.args.username)
         => /\ last.ret = Raise("ConstraintError")
            /\ graph = last.pre

C1_Witness ==
    /\ last.op = "create_user"
    /\ \E u \in last.pre.users : u.username = last.args.username
    /\ last.ret.kind = "raise"
    /\ Cardinality(graph.users) = 2

\* C2: follow_user(A, B) between existing users returns True and leaves exactly
\* one FOLLOWS edge from A to B, so that ListFollowing(A) lists B once; called
\* again on the store it leaves, it returns True again and changes nothing.
C2_IdempotentFollow ==
    (/\ last.op = "follow_user"
     /\ {last.args.follower_id, last.args.followee_id} \subseteq UserIds(last.pre))
      => LET a == last.args.follower_id
             b == last.args.followee_id
         IN  /\ last.ret = Value(TRUE)
             /\ CopiesIn(<<a, b>>, graph.follows) = 1
             /\ TimesListed(Following(graph, a), b) = 1
             /\ \A o \in follow_user(graph, a, b) :
                    /\ o.ret = Value(TRUE)
                    /\ o.g = graph
                    /\ TimesListed(Following(o.g, a), b) = 1

\* The second of two follow_user(A, B) calls has returned: the edge was there
\* when it was made.
C2_Witness ==
    /\ last.op = "follow_user"
    /\ last.args.follower_id # last.args.followee_id
    /\ BagIn(<<last.args.follower_id, last.args.followee_id>>, last.pre.follows)
    /\ last.ret = Value(TRUE)
    /\ TimesListed(Following(graph, last.args.follower_id), last.args.followee_id) = 1

\* C3: unfollow_user(A, B) on a store with no FOLLOWS edge from A to B returns
\* False, raises nothing and leaves the whole store as it was.
C3_IdempotentUnfollow ==
    (/\ last.op = "unfollow_user"
     /\ ~BagIn(<<last.args.follower_id, last.args.followee_id>>, last.pre.follows))
      => /\ last.ret = Value(FALSE)
         /\ graph = last.pre

C3_Witness ==
    /\ last.op = "unfollow_user"
    /\ {last.args.follower_id, last.args.followee_id} \subseteq UserIds(last.pre)
    /\ ~BagIn(<<last.args.follower_id, last.args.followee_id>>, last.pre.follows)
    /\ last.pre.follows # EmptyBag
    /\ last.ret = Value(FALSE)
    /\ graph = last.pre

\* The rows of a bag of user rows that do not name the user id.
Without(rows, id) == [ r \in { x \in BagToSet(rows) : x.id # id } |-> rows[r] ]

\* C4 as stated: from every store, follow_user(A, B) and then unfollow_user(A, B)
\* leave ListFollowing(A) as it was before the follow_user.
C4_FollowUnfollowInverse ==
    last.op = "follow_user"
      => LET a == last.args.follower_id
             b == last.args.followee_id
         IN  \A o \in unfollow_user(graph, a, b) :
                 Following(o.g, a) = Following(last.pre, a)

\* C4 amended: follow_user(A, B) and then unfollow_user(A, B) leave
\* ListFollowing(A) as it was before the follow_user when A did not follow B
\* then; when A already followed B they leave it without B.
C4_FollowUnfollowInverseAmended ==
    last.op = "follow_user"
      => LET a == last.args.follower_id
             b == last.args.followee_id
         IN  \A o \in unfollow_user(graph, a, b) :
                 IF BagIn(<<a, b>>, last.pre.follows)
                 THEN Following(o.g, a) = Without(Following(last.pre, a), b)
                 ELSE Following(o.g, a) = Following(last.pre, a)

\* follow_user(A, B) has added the edge for an A that follows someone else, and
\* unfollow_user(A, B) would now remove it.
C4_Witness ==
    /\ last.op = "follow_user"
    /\ last.args.follower_id # last.args.followee_id
    /\ ~BagIn(<<last.args.follower_id, last.args.followee_id>>, last.pre.follows)
    /\ Following(last.pre, last.args.follower_id) # EmptyBag
    /\ BagIn(<<last.args.follower_id, last.args.followee_id>>, graph.follows)
    /\ \A o \in unfollow_user(graph, last.args.follower_id, last.args.followee_id) :
           o.ret = Value(TRUE)

\* The rows ListPostsByUser(F) returns for the users F of ListFollowing(a).
PostsOfFollowing(g, a) ==
    UNION { UNION { Range(o.ret.value) : o \in get_posts_by_user(g, f.id) } :
              f \in BagToSet(Following(g, a)) }

\* C5: the feed get_feed(A) returns holds exactly the posts ListPostsByUser(F)
\* returns for the users F of ListFollowing(A), each post once, and a post of
\* A's own only if A follows A.
C5_FeedCorrectness ==
    last.op = "get_feed"
      => LET a    == last.args.user_id
             feed == last.ret.value
         IN  /\ Range(feed) = PostsOfFollowing(graph, a)
             /\ \A i, j \in 1..Len(feed) : feed[i].id = feed[j].id => i = j
             /\ \A i \in 1..Len(feed) :
                    <<a, feed[i].id>> \in graph.posted => BagIn(<<a, a>>, graph.follows)

\* A feed of a followed user's post, returned to a user who has posted too and
\* does not follow themselves.
C5_Witness ==
    /\ last.op = "get_feed"
    /\ Len(last.ret.value) = 1
    /\ \E e \in graph.posted : e[1] = last.args.user_id
    /\ ~BagIn(<<last.args.user_id, last.args.user_id>>, graph.follows)

\* The posts of user u in store g.
PostsOf(g, u) == { p \in g.posts : <<u, p.id>> \in g.posted }

\* C6: in the result of get_feed and of get_posts_by_user a post with a later
\* timestamp precedes every post with an earlier one; a user whose two posts
\* are "first" and then "second", at distinct timestamps, gets
\* <<"second", "first">>.
C6_TimeDescending ==
    /\ last.op \in {"get_feed", "get_posts_by_user"}
         => LET rows == last.ret.value
            IN  \A i, j \in 1..Len(rows) :
                    rows[i].timestamp > rows[j].timestamp => i < j
    /\ last.op = "get_posts_by_user"
         => \A p1, p2 \in PostsOf(graph, last.args.user_id) :
                (/\ PostsOf(graph, last.args.user_id) = {p1, p2}
                 /\ p1.id < p2.id
                 /\ p1.timestamp # p2.timestamp
                 /\ p1.content = "first"
                 /\ p2.content = "second")
                  => /\ Len(last.ret.value) = 2
                     /\ last.ret.value[1].content = "second"
                     /\ last.ret.value[2].content = "first"

\* A feed of posts by two authors at distinct timestamps.
C6_Witness ==
    /\ last.op = "get_feed"
    /\ Len(last.ret.value) = 2
    /\ last.ret.value[1].timestamp > last.ret.value[2].timestamp
    /\ last.ret.value[1].username # last.ret.value[2].username
    /\ last.ret.value[1].id > last.ret.value[2].id

\* C7 as stated: create_post for a user id no User has fails with NotFound and
\* creates neither a Post nor a POSTED edge.
C7_CreatePostNotFound ==
    (last.op = "create_post" /\ last.args.user_id \notin UserIds(last.pre))
      => /\ last.ret = Raise("NotFound")
         /\ graph = last.pre

\* The POSTED edges into post p of store g.
AuthorEdges(g, p) == { e \in g.posted : e[2] = p }

\* C10: every Post has exactly one POSTED edge into it, from a User; a step
\* that creates a Post creates that edge with it, and no step changes the
\* POSTED edges of a Post that exists.
C10_Authorship ==
    /\ [](\A p \in graph.posts :
            /\ Cardinality(AuthorEdges(graph, p.id)) = 1
            /\ \A e \in AuthorEdges(graph, p.id) : e[1] \in UserIds(graph))
    /\ [][\A p \in graph'.posts :
            IF p \in graph.posts
            THEN AuthorEdges(graph', p.id) = AuthorEdges(graph, p.id)
            ELSE Cardinality(AuthorEdges(graph', p.id)) = 1]_vars

\* Two users have each posted.
C10_Witness ==
    /\ last.op = "create_post"
    /\ last.ret.kind = "value"
    /\ Cardinality(graph.posts) = 2
    /\ Cardinality({ e[1] : e \in graph.posted }) = 2

----------------------------------------------------------------------------
\* Properties of concurrent requests.

Done(t, op) == calls[t].state = "done" /\ calls[t].op = op

\* C8: of the create_user calls for one username that the threads have run,
\* in whatever order their statements committed, exactly one returned an id,
\* that of the one User with the username, when no User had it at the start,
\* and none did when one had; every other call raised the constraint error.
\* No state holds two Users of a username.
C8_ConcurrentCreateUser ==
    \A u \in { r.args.username : r \in { x \in Requests : x.op = "create_user" } } :
        LET done    == { t \in Threads : Done(t, "create_user") /\ calls[t].args.username = u }
            won     == { t \in done : calls[t].ret.kind = "value" }
            holders == { x \in graph.users : x.username = u }
            fresh   == \A x \in Seeded.users : x.username # u
        IN  /\ Cardinality(holders) <= 1
            /\ done # {}
                 => /\ Cardinality(holders) = 1
                    /\ Cardinality(won) = (IF fresh THEN 1 ELSE 0)
                    /\ \A t \in done \ won : calls[t].ret = Raise("ConstraintError")
                    /\ \A t \in won :
                           holders = {[id |-> calls[t].ret.value, username |-> u,
                                       name |-> calls[t].args.name]}

\* Two threads have run create_user for the new username charlie: one
\* created the User and the other raised.
C8_Witness ==
    \E t1, t2 \in Threads :
        /\ t1 # t2
        /\ Done(t1, "create_user") /\ calls[t1].args.username = "charlie"
        /\ Done(t2, "create_user") /\ calls[t2].args.username = "charlie"
        /\ calls[t1].ret.kind = "value"
        /\ calls[t2].ret.kind = "raise"
        /\ \E x \in graph.users : x.username = "charlie" /\ x.id = calls[t1].ret.value

\* C9: however follow_user and unfollow_user calls on a pair interleave, every
\* state has either one FOLLOWS edge for the pair or none, every edge joins
\* two Users, and what a reader got from get_following, get_followers or
\* get_feed lists no user and no post twice.
C9_ConcurrentFollowUnfollow ==
    /\ \A a, b \in UserIds(graph) : CopiesIn(<<a, b>>, graph.follows) \in {0, 1}
    /\ BagToSet(graph.follows) \subseteq UserIds(graph) \X UserIds(graph)
    /\ \A t \in Threads :
        /\ (Done(t, "get_following") \/ Done(t, "get_followers"))
             => \A r \in BagToSet(calls[t].ret.value) :
                    /\ CopiesIn(r, calls[t].ret.value) = 1
                    /\ r \in graph.users
        /\ Done(t, "get_feed")
             => \A i, j \in 1..Len(calls[t].ret.value) :
                    calls[t].ret.value[i].id = calls[t].ret.value[j].id => i = j

\* follow_user(A, B) and unfollow_user(A, B) have both run, the unfollow_user
\* removed an edge, the follow_user ran last, and a reader saw A follow B.
C9_Witness ==
    \E t1, t2, t3 \in Threads : \E a, b \in UserIds(graph) :
        /\ a # b
        /\ Done(t1, "follow_user") /\ calls[t1].args = [follower_id |-> a, followee_id |-> b]
        /\ Done(t2, "unfollow_user") /\ calls[t2].args = [follower_id |-> a, followee_id |-> b]
        /\ calls[t2].ret = Value(TRUE)
        /\ Done(t3, "get_following") /\ calls[t3].args.user_id = a
        /\ TimesListed(calls[t3].ret.value, b) = 1
        /\ CopiesIn(<<a, b>>, graph.follows) = 1

----------------------------------------------------------------------------
\* Properties of calls against a store that may fail.

\* What follow_user returns for its logical outcomes, on the store the call
\* found: the edge created, the edge already there, an endpoint missing.
FollowUserLogicalReturns(g) ==
    { o.ret : o \in UNION { follow_user(g, a, b) : a \in UserIds(g) \cup {g.nextId},
                                                   b \in UserIds(g) \cup {g.nextId} } }

\* C11 as stated: a follow_user whose store call failed ends in an error, and
\* never in a return value that a logical outcome of follow_user has.
C11_StoreFailurePropagated ==
    (last.op = "follow_user" /\ ~last.up)
      => /\ last.ret.kind = "raise"
         /\ last.ret \notin FollowUserLogicalReturns(last.pre)

----------------------------------------------------------------------------
\* Properties of calls with any text.

\* C12 as stated: create_user with an empty username and create_post with an
\* empty content are rejected with InvalidArgument and leave the store as it
\* was.
C12_InputValidation ==
    (\/ last.op = "create_user" /\ last.args.username = ""
     \/ last.op = "create_post" /\ last.args.content = "")
      => /\ last.ret = Raise("InvalidArgument")
         /\ graph = last.pre

----------------------------------------------------------------------------
\* Further properties of the sequential service.

\* C13: get_posts_by_user returns the empty list, and raises nothing, when the
\* user has no posts and when no User has the id; it leaves the store as it
\* was.
C13_ListPostsEmpty ==
    last.op = "get_posts_by_user"
      => /\ graph = last.pre
         /\ last.ret.kind = "value"
         /\ (\/ last.args.user_id \notin UserIds(last.pre)
             \/ PostsOf(last.pre, last.args.user_id) = {})
              => last.ret = Value(<< >>)

\* get_posts_by_user for an id no User has, on a store that holds posts.
C13_Witness ==
    /\ last.op = "get_posts_by_user"
    /\ last.args.user_id \notin UserIds(graph)
    /\ graph.posts # {}
    /\ last.ret = Value(<< >>)
    /\ graph = last.pre

\* The User a create_user call that has returned an id is to have created.
Created(l) == [id |-> l.ret.value, username |-> l.args.username, name |-> l.args.name]

\* C14: the Users of the store are exactly those the successful create_user
\* calls created, each under the id its call returned and with the username
\* and name it was given, and none is ever changed or removed; get_user of a
\* User's id returns that User in every state, get_user of an id no User has
\* returns None, and get_all_users returns the Users of the store, each once.
C14_GetUserRoundTrip ==
    /\ [](/\ \A u \in graph.users : get_user(graph, u.id) = { Outcome(graph, Value(u)) }
          /\ (last.op = "create_user" /\ last.ret.kind = "value")
               => Created(last) \in graph.users
          /\ last.op = "get_user"
               => /\ graph = last.pre
                  /\ IF last.args.user_id \in UserIds(last.pre)
                     THEN /\ last.ret.kind = "value"
                          /\ last.ret.value \in graph.users
                          /\ last.ret.value.id = last.args.user_id
                     ELSE last.ret = None
          /\ last.op = "get_all_users"
               => last.ret = Value(SetToBag(graph.users)))
    /\ [][graph'.users =
            graph.users \cup (IF last'.op = "create_user" /\ last'.ret.kind = "value" /\ last = Idle
                              THEN {Created(last')}
                              ELSE {})]_vars

\* get_user returns the second of two Users, after a post has been made.
C14_Witness ==
    /\ last.op = "get_user"
    /\ Cardinality(graph.users) = 2
    /\ graph.posts # {}
    /\ last.ret.kind = "value"
    /\ last.ret.value = [id |-> last.args.user_id, username |-> "bob", name |-> "Bob Johnson"]
    /\ last.args.user_id > 0

----------------------------------------------------------------------------
\* Properties of the lifetime of the store.

\* How many nodes of store g have the element id.
TimesLive(g, id) ==
    Cardinality({ u \in g.users : u.id = id }) + Cardinality({ q \in g.posts : q.id = id })

\* C15 as stated: after every step no two User or Post nodes share an element
\* id, and the id a create_user or create_post returns has never been returned
\* before, the migration cleanup notwithstanding.
C15_IdentifiersNeverReused ==
    [][/\ \A id \in UserIds(graph') \cup PostIds(graph') : TimesLive(graph', id) = 1
       /\ \A id \in Issued(last'.op, last'.ret) : last = Idle => id \notin issued]_vars

----------------------------------------------------------------------------
\* Properties of the /follow route.

\* C16 as stated: when two /follow requests for one pair (A, B) have been
\* handled and no other request has arrived, whatever the order of their
\* statements, A follows B exactly if A does after the two handlers have run
\* one after the other from the store the service started on.
C16_ToggleAtomic ==
    \A t1, t2 \in Threads : \A a, b \in UserIds(ToggleStart) :
        (/\ t1 # t2
         /\ Done(t1, "follow") /\ calls[t1].args = [follower_id |-> a, followee_id |-> b]
         /\ Done(t2, "follow") /\ calls[t2].args = [follower_id |-> a, followee_id |-> b]
         /\ \A t \in Threads \ {t1, t2} : calls[t].state = "idle")
          => \E h1 \in follow(ToggleStart, a, b) : \E h2 \in follow(h1, a, b) :
                 /\ CopiesIn(<<a, b>>, graph.follows) = CopiesIn(<<a, b>>, h2.follows)
                 /\ CopiesIn(<<a, b>>, graph.follows) = CopiesIn(<<a, b>>, ToggleStart.follows)

----------------------------------------------------------------------------
\* Further properties of the follow operations.

\* C17: with a follower id or a followee id that no User has, follow_user and
\* unfollow_user return False and leave the store, its nodes and edges, as it
\* was; get_following and get_followers of an id no User has return the empty
\* list and leave the store as it was.  None of them raises.
C17_MissingEndpoints ==
    /\ (/\ last.op \in {"follow_user", "unfollow_user"}
        /\ ~({last.args.follower_id, last.args.followee_id} \subseteq UserIds(last.pre)))
         => /\ last.ret = Value(FALSE)
            /\ graph = last.pre
    /\ (/\ last.op \in {"get_following", "get_followers"}
        /\ last.args.user_id \notin UserIds(last.pre))
         => /\ last.ret = Value(EmptyBag)
            /\ graph = last.pre

\* follow_user from a User who follows someone to an id no User has.
C17_Witness ==
    /\ last.op = "follow_user"
    /\ last.args.follower_id \in UserIds(last.pre)
    /\ last.args.followee_id \notin UserIds(last.pre)
    /\ Following(last.pre, last.args.follower_id) # EmptyBag
    /\ last.ret = Value(FALSE)
    /\ graph = last.pre

\* C18: a call changes the FOLLOWS edges of an ordered pair (A, B) only if it is
\* follow_user(A, B) or unfollow_user(A, B): create_user, create_post, the
\* reads and the follow operations on other pairs, (B, A) among them, leave
\* them as they were; follow_user and unfollow_user leave the Users, the Posts
\* and the POSTED edges as they were.
C18_FollowFrame ==
    last # Idle
      => /\ \A e \in BagToSet(graph.follows) \cup BagToSet(last.pre.follows) :
                CopiesIn(e, graph.follows) # CopiesIn(e, last.pre.follows)
                  => /\ last.op \in {"follow_user", "unfollow_user"}
                     /\ e = <<last.args.follower_id, last.args.followee_id>>
         /\ last.op \in {"follow_user", "unfollow_user"}
              => /\ graph.users = last.pre.users
                 /\ graph.posts = last.pre.posts
                 /\ graph.posted = last.pre.posted

\* unfollow_user(A, B) has removed its edge from a store in which B follows A
\* and a post exists; B still follows A.
C18_Witness ==
    /\ last.op = "unfollow_user"
    /\ last.args.follower_id # last.args.followee_id
    /\ last.ret = Value(TRUE)
    /\ BagIn(<<last.args.followee_id, last.args.follower_id>>, graph.follows)
    /\ ~BagIn(<<last.args.follower_id, last.args.followee_id>>, graph.follows)
    /\ graph.posts # {}

\* C19: follow_user(A, A) for a User A returns True and leaves exactly one
\* FOLLOWS edge from A to A, created by the call unless it was there; A is then
\* listed once by get_following(A) and once by get_followers(A), get_feed(A)
\* holds every post of A, and unfollow_user(A, A) returns True and removes the
\* edge and nothing else.
C19_SelfFollow ==
    (/\ last.op = "follow_user"
     /\ last.args.follower_id = last.args.followee_id
     /\ last.args.follower_id \in UserIds(last.pre))
      => LET a == last.args.follower_id
         IN  /\ last.ret = Value(TRUE)
             /\ CopiesIn(<<a, a>>, graph.follows) = 1
             /\ BagCardinality(graph.follows) =
                  BagCardinality(last.pre.follows) + (IF BagIn(<<a, a>>, last.pre.follows) THEN 0 ELSE 1)
             /\ \A o \in get_following(graph, a) : TimesListed(o.ret.value, a) = 1
             /\ \A o \in get_followers(graph, a) : TimesListed(o.ret.value, a) = 1
             /\ \A o \in get_feed(graph, a) :
                    { p.id : p \in PostsOf(graph, a) } \subseteq { r.id : r \in Range(o.ret.value) }
             /\ \A o \in unfollow_user(graph, a, a) :
                    /\ o.ret = Value(TRUE)
                    /\ ~BagIn(<<a, a>>, o.g.follows)
                    /\ \A e \in BagToSet(graph.follows) \ {<<a, a>>} :
                           CopiesIn(e, o.g.follows) = CopiesIn(e, graph.follows)

\* A User who has posted and follows another User follows themselves.
C19_Witness ==
    /\ last.op = "follow_user"
    /\ last.args.follower_id = last.args.followee_id
    /\ ~BagIn(<<last.args.follower_id, last.args.follower_id>>, last.pre.follows)
    /\ BagIn(<<last.args.follower_id, last.args.follower_id>>, graph.follows)
    /\ PostsOf(graph, last.args.follower_id) # {}
    /\ BagCardinality(graph.follows) = 2
    /\ last.ret = Value(TRUE)

----------------------------------------------------------------------------
\* Further properties of the post queries.

\* C20 as stated: in the result of get_posts_by_user, of two posts with equal
\* timestamps the one created first comes first, and a further call on the
\* same store returns the same list.
C20_TieBreaking ==
    last.op = "get_posts_by_user"
      => LET rows == last.ret.value
         IN  /\ \A i, j \in 1..Len(rows) :
                    (rows[i].timestamp = rows[j].timestamp /\ rows[i].id < rows[j].id) => i < j
             /\ \A o \in get_posts_by_user(graph, last.args.user_id) : o.ret = last.ret

----------------------------------------------------------------------------
\* Properties of startup.

\* C21: loading app.py raises nothing and leaves a store on which loading it
\* again raises nothing and changes nothing, so that any number of loadings in
\* a row leave what one leaves.  On a store with a User it creates no User and
\* changes none; on a store without Users it creates alice, bob and charlie,
\* one User each.  It leaves a constraint named unique_user_id and touches
\* neither posts nor edges.  Neo4jDatabase's _init_db, once it has returned,
\* can be run again in a row likewise: it raises nothing and changes nothing.
C21_StartupIdempotent ==
    /\ last.op = "startup"
         => /\ last.ret = None
            /\ \A o \in startup(graph) : o.ret = None /\ o.g = graph
            /\ last.pre.users # {} => graph.users = last.pre.users
            /\ last.pre.users = {}
                 => /\ { <<u.username, u.name>> : u \in graph.users } = Range(SampleUsers)
                    /\ Cardinality(graph.users) = Len(SampleUsers)
            /\ \E c \in graph.constraints : c.name = "unique_user_id"
            /\ graph.posts = last.pre.posts
            /\ graph.posted = last.pre.posted
            /\ graph.follows = last.pre.follows
    /\ (last.op = "neo4j_init_db" /\ last.ret = None)
         => /\ \A o \in neo4j_init_db(graph) : o.ret = None /\ o.g = graph
            /\ graph.users = last.pre.users

\* app.py has been loaded on the store an earlier loading had seeded, and has
\* left it as it was.
C21_Witness ==
    /\ last.op = "startup"
    /\ { u.username : u \in last.pre.users } = {"alice", "bob", "charlie"}
    /\ \E c \in last.pre.constraints : c.name = "unique_user_id" /\ c.property = "username"
    /\ last.ret = None
    /\ graph = last.pre

====
